---- MODULE Spec2Model ----
(***************************************************************************)
(* Model of SQlite.py: a CSV-to-SQLite loader, three validators, a query  *)
(* log with a frequency report, and the main() pipeline that chains them. *)
(*                                                                         *)
(* The store is modelled as the committed database file (disk) plus the   *)
(* open connection's working copy (view) and its transaction flag, which  *)
(* is how Python's sqlite3 module behaves in its default (legacy)         *)
(* transaction mode: INSERT opens a transaction implicitly, DDL runs in   *)
(* whatever mode the connection is in, commit() publishes the working     *)
(* copy and close() discards whatever is uncommitted.                     *)
(***************************************************************************)
EXTENDS Integers, Sequences, FiniteSets, TLC

VARIABLES conn, view, inTxn, disk, last, pc, runs, logCalls, hist

vars == <<conn, view, inTxn, disk, last, pc, runs, logCalls, hist>>

----------------------------------------------------------------------------
(* Bounds of the model *)

MaxRows == 3
MaxLog == 3
MaxRuns == 2
MaxN == 2

----------------------------------------------------------------------------
(* Values.  A stored value is NULL or a text (a sequence of characters);   *)
(* the loader binds csv fields, which are always Python str, so it only   *)
(* ever stores texts.                                                     *)

NULL == [null |-> TRUE, text |-> <<>>]
T(s) == [null |-> FALSE, text |-> s]

Digits == {"0", "1", "2", "3", "4", "5", "6", "7", "8", "9"}
Letters == {"a", "b", "c", "d", "e", "f", "g", "h", "i", "j", "k", "l", "m",
            "n", "o", "p", "q", "r", "s", "t", "u", "v", "w", "x", "y", "z",
            "A", "B", "C", "D", "E", "F", "G", "H", "I", "J", "K", "L", "M",
            "N", "O", "P", "Q", "R", "S", "T", "U", "V", "W", "X", "Y", "Z"}

DigitVal(c) ==
  CASE c = "0" -> 0 [] c = "1" -> 1 [] c = "2" -> 2 [] c = "3" -> 3
    [] c = "4" -> 4 [] c = "5" -> 5 [] c = "6" -> 6 [] c = "7" -> 7
    [] c = "8" -> 8 [] c = "9" -> 9

Range(s) == {s[i] : i \in DOMAIN s}

----------------------------------------------------------------------------
(* The store: one user table per name and the auxiliary query_logs table.  *)

TableNames == {"Users"}

NoTable == [exists |-> FALSE, cols |-> <<>>, rows |-> <<>>]

EmptyStore == [tables |-> [t \in TableNames |-> NoTable], query_logs |-> NoTable]

(* Reserved words of the store that cannot be used as bare column names. *)
Reserved == {"order"}

----------------------------------------------------------------------------
(* Record sources: what csv.reader yields for a file.  readable = open()   *)
(* succeeds, empty = the file has no first row, headers = the first row,  *)
(* rows = the remaining rows (each a sequence of str fields).             *)

Header == <<"user_id", "age", "email">>

R1 == << <<"1">>, <<"1", "7">>, <<"a", "@", "b", ".", "c", "o">> >>
R2 == << <<"2">>, <<"2", "5">>, <<"n", "o", "t">> >>
R3 == << <<"3">>, <<"a", "b", "c">>, <<>> >>
RShort == << <<"5">> >>
RLong == << <<"6">>, <<"1", "8">>, <<"x", "@", "y", ".", "z", "z">>, <<"x">> >>

Src(hdr, rws) == [readable |-> TRUE, empty |-> FALSE, headers |-> hdr, rows |-> rws]

SrcUsers == Src(Header, <<R1, R2>>)
SrcMore == Src(Header, <<R3>>)
SrcHeaderOnly == Src(Header, <<>>)
SrcShortMid == Src(Header, <<R3, RShort, R1>>)
SrcLongFirst == Src(Header, <<RLong, R1>>)
SrcTwoCols == Src(<<"user_id", "age">>, << <<R1[1], R1[2]>> >>)
SrcDup == Src(<<"age", "age">>, << <<R1[1], R1[2]>> >>)
SrcReserved == Src(<<"order", "age">>, << <<R1[1], R1[2]>> >>)
SrcEmpty == [readable |-> TRUE, empty |-> TRUE, headers |-> <<>>, rows |-> <<>>]
SrcMissing == [readable |-> FALSE, empty |-> TRUE, headers |-> <<>>, rows |-> <<>>]

Sources == {SrcUsers, SrcMore, SrcHeaderOnly, SrcShortMid, SrcLongFirst,
            SrcTwoCols, SrcDup, SrcReserved, SrcEmpty, SrcMissing}

(* A source in the sense of the data model: readable, a header of unique   *)
(* usable names, every data row as wide as the header.                    *)
UniqueNames(hdr) == \A i, j \in DOMAIN hdr : hdr[i] = hdr[j] => i = j

WellFormed(src) ==
  /\ src.readable /\ ~src.empty
  /\ Len(src.headers) > 0
  /\ UniqueNames(src.headers)
  /\ Range(src.headers) \cap Reserved = {}
  /\ \A i \in DOMAIN src.rows : Len(src.rows[i]) = Len(src.headers)

Malformed(src) ==
  /\ src.readable /\ ~src.empty
  /\ UniqueNames(src.headers)
  /\ Range(src.headers) \cap Reserved = {}
  /\ \E i \in DOMAIN src.rows : Len(src.rows[i]) # Len(src.headers)

(* A csv row bound as the parameters of one INSERT: every field is text.  *)
BindRow(r) == [i \in DOMAIN r |-> T(r[i])]

----------------------------------------------------------------------------
(* Outcomes.  "ok": the function ran to its end.  "sqlite3.Error": the     *)
(* function caught the store's error, printed it and returned None, as it *)
(* also does on success.  Any other kind is a Python exception that       *)
(* leaves the function.                                                   *)

Raised == {"FileNotFoundError", "StopIteration", "AttributeError", "ValueError", "TypeError"}

----------------------------------------------------------------------------
(* import_csv_to_sqlite *)

(* CREATE TABLE IF NOT EXISTS name (h1, h2, ...) on the working copy.     *)
(* The statement is parsed first (a reserved word is a syntax error even  *)
(* when the table exists); an existing table ends the statement before    *)
(* the columns are looked at; a new table rejects duplicate names.        *)
(* plain CREATE TABLE: an existing table is an error *)
CreateTable(v, name, hdr) ==
  IF Len(hdr) = 0 \/ Range(hdr) \cap Reserved # {} \/ v.tables[name].exists \/ ~UniqueNames(hdr)
  THEN [err |-> TRUE, created |-> FALSE, view |-> v]
  ELSE [err |-> FALSE, created |-> TRUE,
        view |-> [v EXCEPT !.tables[name] = [exists |-> TRUE, cols |-> hdr, rows |-> <<>>]]]

CreateTableIfNotExists(v, name, hdr) ==
  IF Len(hdr) = 0 \/ Range(hdr) \cap Reserved # {}
  THEN [err |-> TRUE, created |-> FALSE, view |-> v]
  ELSE IF v.tables[name].exists
  THEN [err |-> FALSE, created |-> FALSE, view |-> v]
  ELSE IF ~UniqueNames(hdr)
  THEN [err |-> TRUE, created |-> FALSE, view |-> v]
  ELSE [err |-> FALSE, created |-> TRUE,
        view |-> [v EXCEPT !.tables[name] = [exists |-> TRUE, cols |-> hdr, rows |-> <<>>]]]

(* cursor.executemany(insert_query, csv_reader): rows are bound and       *)
(* inserted one by one; the first row whose width is not the number of    *)
(* placeholders raises and the rows before it stay inserted.              *)
(* a bulk insert that stores each new row in front of the stored ones *)
RECURSIVE ExecuteManyPrepending(_, _, _)
ExecuteManyPrepending(stored, k, rws) ==
  IF rws = <<>> THEN [err |-> FALSE, rows |-> stored]
  ELSE IF Len(Head(rws)) # k THEN [err |-> TRUE, rows |-> stored]
  ELSE ExecuteManyPrepending(<<BindRow(Head(rws))>> \o stored, k, Tail(rws))

RECURSIVE ExecuteMany(_, _, _)
ExecuteMany(stored, k, rws) ==
  IF rws = <<>> THEN [err |-> FALSE, rows |-> stored]
  ELSE IF Len(Head(rws)) # k THEN [err |-> TRUE, rows |-> stored]
  ELSE ExecuteMany(Append(stored, BindRow(Head(rws))), k, Tail(rws))

ImportResult(k, c, v, t, d) == [kind |-> k, conn |-> c, view |-> v, inTxn |-> t, disk |-> d]

import_csv_to_sqlite(c, v, t, d, src, name) ==
  IF ~src.readable THEN ImportResult("FileNotFoundError", c, v, t, d)
  ELSE IF src.empty THEN ImportResult("StopIteration", c, v, t, d)
  ELSE IF c = "None" THEN ImportResult("AttributeError", c, v, t, d)
  ELSE IF c # "open" THEN ImportResult("sqlite3.Error", c, v, t, d)
  ELSE
    LET ct == CreateTableIfNotExists(v, name, src.headers)
        \* DDL outside a transaction is committed at once
        d1 == IF ct.created /\ ~t
              THEN [d EXCEPT !.tables[name] = ct.view.tables[name]] ELSE d
        k == Len(src.headers)
    IN IF ct.err THEN ImportResult("sqlite3.Error", c, v, t, d)
       \* the INSERT does not compile against a table of another width
       ELSE IF Len(ct.view.tables[name].cols) # k
       THEN ImportResult("sqlite3.Error", c, ct.view, t, d1)
       ELSE
         LET em == ExecuteMany(ct.view.tables[name].rows, k, src.rows)
             v2 == [ct.view EXCEPT !.tables[name].rows = em.rows]
         IN IF em.err THEN ImportResult("sqlite3.Error", c, v2, TRUE, d1)
            \* conn.commit()
            ELSE ImportResult("ok", c, v2, FALSE, v2)

----------------------------------------------------------------------------
(* connect_sqlite and conn.close() *)

(* sqlite3.connect either opens the store or raises sqlite3.Error, which  *)
(* connect_sqlite turns into the pair (None, None).                       *)
connect_sqlite(canOpen) == IF canOpen THEN "open" ELSE "None"

(* conn.close(): raises on None; otherwise the handle is closed and what  *)
(* was not committed is gone.                                             *)
close(c) == IF c = "None" THEN [kind |-> "AttributeError", conn |-> c]
            ELSE [kind |-> "ok", conn |-> "closed"]

(* cursor.execute of a statement on this handle cannot even start. *)
HandleFailure(c) == IF c = "None" THEN "AttributeError" ELSE "sqlite3.Error"

ColIndex(cols, name) == CHOOSE i \in DOMAIN cols : cols[i] = name

HasCol(tbl, name) == tbl.exists /\ name \in Range(tbl.cols)

Column(tbl, name) == [i \in DOMAIN tbl.rows |-> tbl.rows[i][ColIndex(tbl.cols, name)]]

Outcome(k, p) == [kind |-> k, payload |-> p]

----------------------------------------------------------------------------
(* validate_email_addresses *)

LocalClass(ch) == ch \in Letters \cup Digits \cup {".", "_", "%", "+", "-"}
DomainClass(ch) == ch \in Letters \cup Digits \cup {".", "-"}
AlphaClass(ch) == ch \in Letters

(* ^[a-zA-Z0-9._%+-]+@[a-zA-Z0-9.-]+\.[a-zA-Z]{2,} up to the end of s *)
FullMatch(s) ==
  \E i \in 2..Len(s) : \E j \in (i + 2)..(Len(s) - 2) :
    /\ s[i] = "@"
    /\ s[j] = "."
    /\ \A x \in 1..(i - 1) : LocalClass(s[x])
    /\ \A x \in (i + 1)..(j - 1) : DomainClass(s[x])
    /\ \A x \in (j + 1)..Len(s) : AlphaClass(s[x])

(* email_pattern.match(email): $ also matches before a final newline *)
EmailMatch(s) ==
  \/ FullMatch(s)
  \/ Len(s) > 0 /\ s[Len(s)] = "\n" /\ FullMatch(SubSeq(s, 1, Len(s) - 1))

IsInvalidEmail(val) == ~EmailMatch(val.text)

validate_email_addresses(c, v, name, col) ==
  IF c # "open" THEN Outcome(HandleFailure(c), <<>>)
  ELSE IF ~HasCol(v.tables[name], col) THEN Outcome("sqlite3.Error", <<>>)
  ELSE LET email_addresses == Column(v.tables[name], col)
       IN \* re.match(None) raises TypeError inside the comprehension
          IF \E i \in DOMAIN email_addresses : email_addresses[i].null
          THEN Outcome("TypeError", <<>>)
          ELSE Outcome("ok", SelectSeq(email_addresses, IsInvalidEmail))

----------------------------------------------------------------------------
(* perform_boundary_check *)

(* column < ? and column > ? with an integer parameter.  The loader       *)
(* declares columns without a type, so no affinity is applied: NULL       *)
(* compares as unknown and a text is greater than every integer.          *)
SqlLess(val, n) == FALSE
SqlGreater(val, n) == ~val.null

perform_boundary_check(c, v, name, col, min_value, max_value) ==
  IF c # "open" THEN Outcome(HandleFailure(c), <<>>)
  ELSE IF ~HasCol(v.tables[name], col) THEN Outcome("sqlite3.Error", <<>>)
  ELSE LET tbl == v.tables[name]
           i == ColIndex(tbl.cols, col)
           Violates(row) == SqlLess(row[i], min_value) \/ SqlGreater(row[i], max_value)
       IN Outcome("ok", SelectSeq(tbl.rows, Violates))

----------------------------------------------------------------------------
(* validate_age_entries *)

RECURSIVE Strip(_)
Strip(s) == IF s # <<>> /\ Head(s) = " " THEN Strip(Tail(s))
            ELSE IF s # <<>> /\ s[Len(s)] = " " THEN Strip(SubSeq(s, 1, Len(s) - 1))
            ELSE s

Unsigned(s) == IF s # <<>> /\ Head(s) \in {"+", "-"} THEN Tail(s) ELSE s

(* the literals Python's int(str) accepts *)
IsIntLiteral(s) ==
  LET b == Unsigned(Strip(s))
  IN /\ b # <<>>
     /\ \A i \in DOMAIN b : b[i] \in Digits \cup {"_"}
     /\ b[1] \in Digits /\ b[Len(b)] \in Digits
     /\ \A i \in 1..(Len(b) - 1) : ~(b[i] = "_" /\ b[i + 1] = "_")

RECURSIVE DigitsValue(_, _)
DigitsValue(b, acc) ==
  IF b = <<>> THEN acc
  ELSE IF Head(b) = "_" THEN DigitsValue(Tail(b), acc)
  ELSE DigitsValue(Tail(b), 10 * acc + DigitVal(Head(b)))

IntOf(s) ==
  LET t == Strip(s)
      m == DigitsValue(Unsigned(t), 0)
  IN IF t # <<>> /\ Head(t) = "-" THEN 0 - m ELSE m

(* int(age): TypeError on None, ValueError on a text that is no literal *)
IntFailure(val) == IF val.null THEN "TypeError"
                   ELSE IF ~IsIntLiteral(val.text) THEN "ValueError" ELSE "ok"

validate_age_entries(c, v, name, column_name, age_threshold) ==
  IF c # "open" THEN Outcome(HandleFailure(c), <<>>)
  \* the statement names user_id and age whatever column_name is
  ELSE IF ~(HasCol(v.tables[name], "user_id") /\ HasCol(v.tables[name], "age"))
  THEN Outcome("sqlite3.Error", <<>>)
  ELSE LET tbl == v.tables[name]
           ids == Column(tbl, "user_id")
           ages == Column(tbl, "age")
           bad == {i \in DOMAIN ages : IntFailure(ages[i]) # "ok"}
           age_entries == [i \in DOMAIN ages |-> <<ids[i], IntOf(ages[i].text)>>]
           Below(e) == e[2] < age_threshold
       IN IF bad # {}
          THEN Outcome(IntFailure(ages[CHOOSE i \in bad : \A j \in bad : i <= j]), <<>>)
          ELSE Outcome("ok", SelectSeq(age_entries, Below))

----------------------------------------------------------------------------
(* log_query *)

LogResult(k, v, t, d) == [kind |-> k, view |-> v, inTxn |-> t, disk |-> d]

log_query(c, v, t, d, query) ==
  IF c # "open" THEN LogResult(HandleFailure(c), v, t, d)
  ELSE LET created == ~v.query_logs.exists
           tbl == IF created THEN [exists |-> TRUE, cols |-> <<"query_text">>, rows |-> <<>>]
                  ELSE v.query_logs
           \* CREATE TABLE outside a transaction is committed at once
           d1 == IF created /\ ~t THEN [d EXCEPT !.query_logs = tbl] ELSE d
           \* the INSERT opens a transaction that log_query never commits
           v1 == [v EXCEPT !.query_logs = [tbl EXCEPT !.rows = Append(tbl.rows, <<query>>)]]
       IN LogResult("ok", v1, TRUE, d1)

----------------------------------------------------------------------------
(* predict_most_repeatable_queries *)

Occurrences(s, e) == Cardinality({i \in DOMAIN s : s[i] = e})

(* Counter(queries): one (element, count) item per distinct element, in   *)
(* the order in which the elements are first seen.                        *)
RECURSIVE Counter(_, _)
Counter(queries, seen) ==
  IF queries = <<>> THEN <<>>
  ELSE IF Head(queries) \in seen THEN Counter(Tail(queries), seen)
  ELSE << <<Head(queries), 1 + Occurrences(Tail(queries), Head(queries))>> >>
         \o Counter(Tail(queries), seen \cup {Head(queries)})

(* sorted(items, key=count, reverse=True): stable, equal counts keep      *)
(* their order.                                                           *)
RECURSIVE InsertByCount(_, _)
InsertByCount(sorted, item) ==
  IF sorted = <<>> THEN <<item>>
  ELSE IF Head(sorted)[2] >= item[2] THEN <<Head(sorted)>> \o InsertByCount(Tail(sorted), item)
  ELSE <<item>> \o sorted

(* no sorting: the items stay in first-seen order *)
Unsorted(items) == items

RECURSIVE SortByCount(_)
SortByCount(items) ==
  IF items = <<>> THEN <<>>
  ELSE InsertByCount(SortByCount(SubSeq(items, 1, Len(items) - 1)), items[Len(items)])

(* Counter.most_common(n) for an integer n *)
most_common(queries, n) ==
  LET sorted == SortByCount(Counter(queries, {}))
  IN IF n <= 0 THEN <<>>
     ELSE IF n >= Len(sorted) THEN sorted ELSE SubSeq(sorted, 1, n)

predict_most_repeatable_queries(c, v, top_n) ==
  IF c # "open" THEN Outcome(HandleFailure(c), <<>>)
  ELSE IF ~v.query_logs.exists THEN Outcome("sqlite3.Error", <<>>)
  ELSE Outcome("ok", most_common(v.query_logs.rows, top_n))

----------------------------------------------------------------------------
(* Parameters the callers pass *)

Cols == {"user_id", "age", "email"}
RangeBounds == {<<20, 40>>, <<17, 25>>}
Thresholds == {18, 17}
Queries == {"Q1", "Q2"}
TopNs == 0..MaxN

(* the arguments main() hard-codes *)
table_name == "Users"
column_name == "email"
min_value == 20
max_value == 40
age_threshold == 18
sample_query == "SELECT * FROM Users WHERE email LIKE '%@example.com';"
top_n == 5

----------------------------------------------------------------------------
(* State *)

(* A store file left by an earlier use of the same database path: the     *)
(* user table exists and one of its rows has no email.                    *)
PreRow == <<T(<<"9">>), T(<<"3", "0">>), NULL>>

PreStore == [EmptyStore EXCEPT
               !.tables["Users"] = [exists |-> TRUE, cols |-> Header, rows |-> <<PreRow>>]]

NoArgs == [table |-> "", col |-> "", lo |-> 0, hi |-> 0, n |-> 0, query |-> ""]

Last(op, kind, payload, handle, args) ==
  [op |-> op, kind |-> kind, payload |-> payload, handle |-> handle, args |-> args,
   src |-> SrcEmpty, before |-> NoTable, beforeDisk |-> NoTable]

Init ==
  /\ disk \in {EmptyStore, PreStore}
  /\ view = disk
  /\ conn = "unconnected"
  /\ inTxn = FALSE
  /\ last = Last("none", "ok", <<>>, "unconnected", NoArgs)
  /\ pc = "start"
  /\ runs = 0
  /\ logCalls = 0
  /\ hist = [any |-> FALSE, wf |-> TRUE, noErr |-> TRUE,
             cols |-> disk.tables["Users"].cols, rows |-> disk.tables["Users"].rows]

----------------------------------------------------------------------------
(* One step per function of the module; the callers below sequence them.  *)

DoConnect(canOpen) ==
  /\ conn' = connect_sqlite(canOpen)
  /\ view' = disk
  /\ inTxn' = FALSE
  /\ last' = Last("connect", IF canOpen THEN "ok" ELSE "sqlite3.Error", <<>>, conn, NoArgs)
  /\ UNCHANGED <<disk, hist>>

(* History of the loads into the user table, kept for the properties:   *)
(* wf = every load so far was on an open handle from a well-formed       *)
(* source with the same header, noErr = none of them failed, rows = the  *)
(* rows the table started with followed by the rows of the sources.      *)
HistAfter(src, kind) ==
  LET wf == /\ hist.wf /\ conn = "open" /\ WellFormed(src)
            /\ (hist.cols = <<>> \/ src.headers = hist.cols)
  IN IF wf
     THEN [any |-> TRUE, wf |-> TRUE, noErr |-> hist.noErr /\ kind = "ok",
           cols |-> src.headers,
           rows |-> hist.rows \o [i \in DOMAIN src.rows |-> BindRow(src.rows[i])]]
     ELSE [any |-> TRUE, wf |-> FALSE, noErr |-> FALSE, cols |-> <<>>, rows |-> <<>>]

DoLoad(src, name) ==
  LET r == import_csv_to_sqlite(conn, view, inTxn, disk, src, name)
  IN /\ conn' = r.conn
     /\ view' = r.view
     /\ inTxn' = r.inTxn
     /\ disk' = r.disk
     /\ last' = [Last("load", r.kind, <<>>, conn, [NoArgs EXCEPT !.table = name])
                   EXCEPT !.src = src, !.before = view.tables[name],
                          !.beforeDisk = disk.tables[name]]
     /\ hist' = HistAfter(src, r.kind)

DoBoundaryCheck(name, col, lo, hi) ==
  LET r == perform_boundary_check(conn, view, name, col, lo, hi)
  IN /\ last' = Last("range", r.kind, r.payload, conn,
                     [NoArgs EXCEPT !.table = name, !.col = col, !.lo = lo, !.hi = hi])
     /\ UNCHANGED <<conn, view, inTxn, disk, hist>>

DoValidateAge(name, col, threshold) ==
  LET r == validate_age_entries(conn, view, name, col, threshold)
  IN /\ last' = Last("threshold", r.kind, r.payload, conn,
                     [NoArgs EXCEPT !.table = name, !.col = col, !.lo = threshold])
     /\ UNCHANGED <<conn, view, inTxn, disk, hist>>

DoValidateEmail(name, col) ==
  LET r == validate_email_addresses(conn, view, name, col)
  IN /\ last' = Last("pattern", r.kind, r.payload, conn,
                     [NoArgs EXCEPT !.table = name, !.col = col])
     /\ UNCHANGED <<conn, view, inTxn, disk, hist>>

DoLogQuery(query) ==
  LET r == log_query(conn, view, inTxn, disk, query)
  IN /\ view' = r.view
     /\ inTxn' = r.inTxn
     /\ disk' = r.disk
     /\ last' = Last("log_query", r.kind, <<>>, conn, [NoArgs EXCEPT !.query = query])
     /\ UNCHANGED <<conn, hist>>

DoPredict(n) ==
  LET r == predict_most_repeatable_queries(conn, view, n)
  IN /\ last' = Last("top_queries", r.kind, r.payload, conn, [NoArgs EXCEPT !.n = n])
     /\ UNCHANGED <<conn, view, inTxn, disk, hist>>

DoClose ==
  LET r == close(conn)
  IN /\ conn' = r.conn
     \* an open transaction is rolled back when the handle goes away
     /\ view' = IF r.kind = "ok" THEN disk ELSE view
     /\ inTxn' = IF r.kind = "ok" THEN FALSE ELSE inTxn
     /\ last' = Last("close", r.kind, <<>>, conn, NoArgs)
     /\ UNCHANGED <<disk, hist>>

RoomFor(src, name) ==
  Len(view.tables[name].rows) + Len(src.rows) <= MaxRows

----------------------------------------------------------------------------
(* Callers that use the functions in any order on the handle that        *)
(* connect_sqlite gave them.  Spec is a data-quality caller (loader and   *)
(* validators), SpecLog an analytics caller (query log and report).       *)

Connect(canOpen) ==
  /\ conn \in {"unconnected", "closed", "None"}
  /\ DoConnect(canOpen)
  /\ UNCHANGED <<pc, runs, logCalls>>

Load(src, name) ==
  /\ conn # "unconnected"
  /\ RoomFor(src, name)
  /\ DoLoad(src, name)
  /\ UNCHANGED <<pc, runs, logCalls>>

BoundaryCheck(name, col, b) ==
  /\ conn # "unconnected"
  /\ DoBoundaryCheck(name, col, b[1], b[2])
  /\ UNCHANGED <<pc, runs, logCalls>>

ValidateAge(name, col, threshold) ==
  /\ conn # "unconnected"
  /\ DoValidateAge(name, col, threshold)
  /\ UNCHANGED <<pc, runs, logCalls>>

ValidateEmail(name, col) ==
  /\ conn # "unconnected"
  /\ DoValidateEmail(name, col)
  /\ UNCHANGED <<pc, runs, logCalls>>

LogQuery(query) ==
  /\ conn # "unconnected"
  /\ Len(view.query_logs.rows) < MaxLog
  /\ DoLogQuery(query)
  /\ UNCHANGED <<pc, runs, logCalls>>

Predict(n) ==
  /\ conn # "unconnected"
  /\ DoPredict(n)
  /\ UNCHANGED <<pc, runs, logCalls>>

Close ==
  /\ conn # "unconnected"
  /\ DoClose
  /\ UNCHANGED <<pc, runs, logCalls>>

Next ==
  \/ \E canOpen \in BOOLEAN : Connect(canOpen)
  \/ \E src \in Sources, name \in TableNames : Load(src, name)
  \/ \E name \in TableNames, col \in Cols, b \in RangeBounds : BoundaryCheck(name, col, b)
  \/ \E name \in TableNames, col \in Cols, th \in Thresholds : ValidateAge(name, col, th)
  \/ \E name \in TableNames, col \in Cols : ValidateEmail(name, col)
  \/ Close

Spec == Init /\ [][Next]_vars

(* the loads the analytics caller makes between its log calls: one that  *)
(* commits and one that fails half way                                    *)
LogSources == {SrcHeaderOnly, SrcShortMid}

NextLog ==
  \/ \E canOpen \in BOOLEAN : Connect(canOpen)
  \/ \E src \in LogSources, name \in TableNames : Load(src, name)
  \/ \E query \in Queries : LogQuery(query)
  \/ \E n \in TopNs : Predict(n)
  \/ Close

SpecLog == Init /\ [][NextLog]_vars

----------------------------------------------------------------------------
(* SpecMain: runs of main().  A run executes the calls of main in order;  *)
(* an exception that leaves one of them ends the process there, with the  *)
(* calls after it, conn.close() included, not executed.                   *)

After(kind, nextpc) == IF kind \in Raised THEN "crashed" ELSE nextpc

MainConnect(canOpen) ==
  /\ pc \in {"start", "done", "crashed"}
  /\ runs < MaxRuns
  /\ DoConnect(canOpen)
  /\ runs' = runs + 1
  /\ pc' = "import"
  /\ UNCHANGED logCalls

MainImport(src) ==
  /\ pc = "import"
  /\ RoomFor(src, table_name)
  /\ DoLoad(src, table_name)
  /\ pc' = After(last'.kind, "boundary")
  /\ UNCHANGED <<runs, logCalls>>

MainBoundary ==
  /\ pc = "boundary"
  /\ DoBoundaryCheck(table_name, column_name, min_value, max_value)
  /\ pc' = After(last'.kind, "age")
  /\ UNCHANGED <<runs, logCalls>>

MainAge ==
  /\ pc = "age"
  /\ DoValidateAge(table_name, column_name, age_threshold)
  /\ pc' = After(last'.kind, "email")
  /\ UNCHANGED <<runs, logCalls>>

MainEmail ==
  /\ pc = "email"
  /\ DoValidateEmail(table_name, column_name)
  /\ pc' = After(last'.kind, "log")
  /\ UNCHANGED <<runs, logCalls>>

MainLog ==
  /\ pc = "log"
  /\ DoLogQuery(sample_query)
  /\ logCalls' = IF last'.kind = "ok" THEN logCalls + 1 ELSE logCalls
  /\ pc' = After(last'.kind, "predict")
  /\ UNCHANGED runs

MainPredict ==
  /\ pc = "predict"
  /\ DoPredict(top_n)
  /\ pc' = After(last'.kind, "close")
  /\ UNCHANGED <<runs, logCalls>>

MainClose ==
  /\ pc = "close"
  /\ DoClose
  /\ pc' = After(last'.kind, "done")
  /\ UNCHANGED <<runs, logCalls>>

NextMain ==
  \/ \E canOpen \in BOOLEAN : MainConnect(canOpen)
  \/ \E src \in Sources : MainImport(src)
  \/ MainBoundary
  \/ MainAge
  \/ MainEmail
  \/ MainLog
  \/ MainPredict
  \/ MainClose

SpecMain == Init /\ [][NextMain]_vars

----------------------------------------------------------------------------
(* Properties *)

UserTable == view.tables[last.args.table]

LoadedOnOpen == last.op = "load" /\ last.handle = "open"

(* C1: round trip of the loader.  A load, on an open handle, of a source  *)
(* with k unique header names and N rows of k fields into a table that    *)
(* did not exist succeeds and leaves a table with the header's columns in *)
(* header order and exactly the N rows, field by field, in source order;  *)
(* the committed store holds the same table.                              *)
C1_RoundTrip ==
  (LoadedOnOpen /\ ~last.before.exists /\ WellFormed(last.src)) =>
    /\ last.kind = "ok"
    /\ UserTable.exists
    /\ UserTable.cols = last.src.headers
    /\ Len(UserTable.rows) = Len(last.src.rows)
    /\ \A i \in DOMAIN last.src.rows : \A j \in DOMAIN last.src.headers :
         UserTable.rows[i][j] = T(last.src.rows[i][j])
    /\ disk.tables[last.args.table] = UserTable

C1_Witness ==
  /\ LoadedOnOpen /\ ~last.before.exists /\ WellFormed(last.src)
  /\ Len(last.src.rows) = 2
  /\ Len(UserTable.rows) = 2
  /\ UserTable.rows[1] # UserTable.rows[2]

(* C2: query log persistence.  Once the handle is closed the committed    *)
(* query_logs table holds one entry per log_query call that was made.     *)
C2_LogPersists ==
  conn = "closed" => Len(disk.query_logs.rows) = logCalls

(* C3: reject-all on malformed rows.  After a load of a source with a row *)
(* narrower or wider than the header, the table holds none of the         *)
(* source's rows, on the same handle and in the committed store.          *)
C3_RejectAll ==
  (LoadedOnOpen /\ Malformed(last.src)) =>
    /\ UserTable.rows = last.before.rows
    /\ disk.tables[last.args.table].rows = last.beforeDisk.rows

AllText(tbl) == \A i \in DOMAIN tbl.rows : \A j \in DOMAIN tbl.rows[i] : ~tbl.rows[i][j].null

NumericColumn(tbl, col) ==
  \A i \in DOMAIN tbl.rows : IntFailure(tbl.rows[i][ColIndex(tbl.cols, col)]) = "ok"

(* C4: range validator.  On a table filled by the loader whose column     *)
(* holds numeric texts, the validator either fails with TypeMismatch or   *)
(* returns exactly the rows whose value, as a number, is below min or     *)
(* above max.                                                             *)
C4_RangeNumeric ==
  (/\ last.op = "range" /\ last.handle = "open"
   /\ HasCol(UserTable, last.args.col)
   /\ AllText(UserTable) /\ NumericColumn(UserTable, last.args.col)) =>
    LET i == ColIndex(UserTable.cols, last.args.col)
        Outside(row) == IntOf(row[i].text) < last.args.lo \/ IntOf(row[i].text) > last.args.hi
    IN \/ last.kind = "TypeMismatch"
       \/ last.kind = "ok" /\ last.payload = SelectSeq(UserTable.rows, Outside)

(* C5: threshold validator.  The validator reads the pairs (user_id,      *)
(* value) of the column its caller names: when every value is numeric     *)
(* text it returns the pairs whose integer is below the threshold, and    *)
(* otherwise it fails with a coercion error.                              *)
C5_ThresholdNamedColumn ==
  (/\ last.op = "threshold" /\ last.handle = "open"
   /\ HasCol(UserTable, "user_id") /\ HasCol(UserTable, last.args.col)) =>
    LET ids == Column(UserTable, "user_id")
        vals == Column(UserTable, last.args.col)
        pairs == [i \in DOMAIN vals |-> <<ids[i], IntOf(vals[i].text)>>]
        Below(e) == e[2] < last.args.lo
    IN IF NumericColumn(UserTable, last.args.col)
       THEN last.kind = "ok" /\ last.payload = SelectSeq(pairs, Below)
       ELSE last.kind \in {"CoercionError", "ValueError", "TypeError"}

(* C6: format validator.  The validator returns exactly the values of the *)
(* column that do not match the pattern, NULL values included; a NULL     *)
(* does not abort it.                                                     *)
C6_PatternNullFails ==
  (/\ last.op = "pattern" /\ last.handle = "open"
   /\ HasCol(UserTable, last.args.col)) =>
    LET Fails(val) == val.null \/ ~EmailMatch(val.text)
    IN /\ last.kind = "ok"
       /\ last.payload = SelectSeq(Column(UserTable, last.args.col), Fails)

FirstSeen(s, e) == CHOOSE i \in DOMAIN s : s[i] = e /\ \A j \in DOMAIN s : s[j] = e => i <= j

Min(a, b) == IF a <= b THEN a ELSE b

C8_GuaranteedClose ==
  /\ pc \in {"done", "crashed"} => conn # "open"
  /\ last.op \notin {"none", "connect"} => last.handle # "None"

(* C9: idempotent creation, append-only table.  After one or more loads,  *)
(* all on an open handle from well-formed sources with the same header,   *)
(* no load reported an error and the committed table has the header's     *)
(* columns and the rows of all the sources in load order, after the rows  *)
(* it started with.                                                       *)
C9_IdempotentAppend ==
  (hist.any /\ hist.wf) =>
    /\ hist.noErr
    /\ disk.tables["Users"].exists
    /\ disk.tables["Users"].cols = hist.cols
    /\ disk.tables["Users"].rows = hist.rows
    /\ conn = "open" => view.tables["Users"] = disk.tables["Users"]

C9_Witness ==
  /\ hist.any /\ hist.wf
  /\ LoadedOnOpen
  /\ last.before.exists /\ Len(last.before.rows) = 2
  /\ Len(last.src.rows) = 1
  /\ Len(disk.tables["Users"].rows) = 3

Taxonomy == {"ConnectionError", "LoadError", "TypeMismatch", "CoercionError"}

(* C10: error outcomes are values of the taxonomy.  Every operation on an *)
(* open handle ends with success or with one of the four error kinds, and *)
(* a load of a missing or empty source ends with LoadError.               *)
C10_Taxonomy ==
  (last.handle = "open" /\ last.op # "connect") =>
    /\ last.kind \in {"ok"} \cup Taxonomy
    /\ (last.op = "load" /\ (~last.src.readable \/ last.src.empty)) => last.kind = "LoadError"

====
